---- MODULE Spec2Model ----
(***************************************************************************)
(* Flashcard lifecycle of the SkyLearn API (src/main.py): generation of a  *)
(* batch of cards, due-card listing and review with the naive spacing      *)
(* policy.  The "flashcard" collection is a sequence of documents in       *)
(* insertion order; a datetime is an integer number of clock ticks, Day of *)
(* them to a day; an ObjectId is a positive integer and its string form is *)
(* a record, so that str() and ObjectId() are conversions that can fail.   *)
(*                                                                         *)
(* A review request is three steps (find_one, the first clock reading with *)
(* the computation of next_due, update_one with the second clock reading)  *)
(* because the store and the clock are shared between requests that run    *)
(* concurrently.  The clock is read as a monotonic wall clock.  resp is    *)
(* the response sent by the step just taken; created and hist record, for  *)
(* each card, the document as inserted and the review that last wrote it.  *)
(***************************************************************************)
EXTENDS Integers, Sequences, FiniteSets, TLC

\* ---------------------------------------------------------------- bounds
MaxClock == 1
MaxOps == 3
MaxBatches == 1

\* ------------------------------------------------------ program constants
Day == 1
MinDays == 1
MaxDays == 7
MinBatch == 1
MaxBatch == 20
StaggerPeriod == 3
ListLimit == 100

Users == {"u1", "u2"}
Procs == {1, 2}

Max(a, b) == IF a >= b THEN a ELSE b
Min(a, b) == IF a <= b THEN a ELSE b

timedelta(days) == days * Day

\* ------------------------------------------------------------ identifiers
\* str(ObjectId): the 24-hex-digit string form of an id
StrId(oid) == [valid |-> TRUE, n |-> oid]
\* a string that is not the string form of any ObjectId
Malformed == [valid |-> FALSE, n |-> 0]
\* ObjectId(s) raises for a malformed string
ObjectIdRaises(s) == ~s.valid
ObjectId(s) == s.n

\* ---------------------------------------------------------------- chapters
ChapterColl ==
  << [_id |-> 1, title |-> <<"C", "e", " ", "B">>],
     [_id |-> 2, title |-> <<>>] >>
DefaultTitle == <<"C", "h", "a", "p", "t", "e", "r">>

RECURSIVE SplitFirst(_)
\* s.split(" ")[0]: the characters before the first space
SplitFirst(s) ==
  IF s = <<>> THEN <<>>
  ELSE IF Head(s) = " " THEN <<>>
  ELSE <<Head(s)>> \o SplitFirst(Tail(s))

\* get_chapter: the outcome of the chapter lookup
GetChapter(chapter_id) ==
  IF ObjectIdRaises(chapter_id)
    THEN [status |-> 404, detail |-> "Invalid chapter id"]
  ELSE LET hits == {i \in 1..Len(ChapterColl) : ChapterColl[i]._id = ObjectId(chapter_id)}
       IN IF hits = {}
            THEN [status |-> 404, detail |-> "Chapter not found"]
            ELSE [status |-> 200, doc |-> ChapterColl[CHOOSE i \in hits : TRUE]]

Stem(chap) == SplitFirst(IF chap.title = <<>> THEN DefaultTitle ELSE chap.title)

\* ------------------------------------------------------------- store ops
\* the query of list_flashcards: {"user_id": uid} and, with due, {"due_at": {"$lte": now}}
Matches(d, uid, due, now) == d.user_id = uid /\ (due => d.due_at <= now)

RECURSIVE FindAll(_, _, _, _)
\* the matching documents in collection order
FindAll(coll, uid, due, now) ==
  IF coll = <<>> THEN <<>>
  ELSE (IF Matches(Head(coll), uid, due, now) THEN <<Head(coll)>> ELSE <<>>)
         \o FindAll(Tail(coll), uid, due, now)

Limit(s, n) == SubSeq(s, 1, Min(Len(s), n))

\* {"$set": upd} applied to one document
SetFields(doc, upd) ==
  [k \in (DOMAIN doc) \cup (DOMAIN upd) |-> IF k \in DOMAIN upd THEN upd[k] ELSE doc[k]]

\* find_one that forgets the owner in its filter
FindOneAnyOwner(coll, oid, uid) ==
  LET hits == {i \in 1..Len(coll) : coll[i]._id = oid}
  IN IF hits = {} THEN 0 ELSE CHOOSE i \in hits : \A j \in hits : i <= j

\* find_one({"_id": oid, "user_id": uid}): index of the document, 0 for None
FindOne(coll, oid, uid) ==
  LET hits == {i \in 1..Len(coll) : coll[i]._id = oid /\ coll[i].user_id = uid}
  IN IF hits = {} THEN 0 ELSE CHOOSE i \in hits : \A j \in hits : i <= j

\* an update that never moves due_at backwards
UpdateOneKeepLater(coll, oid, upd) ==
  LET hits == {i \in 1..Len(coll) : coll[i]._id = oid}
  IN IF hits = {} THEN coll
     ELSE LET h == CHOOSE i \in hits : \A j \in hits : i <= j
          IN IF coll[h].due_at > upd.due_at THEN coll
             ELSE [coll EXCEPT ![h] = SetFields(coll[h], upd)]

\* update_many with an empty filter
UpdateEvery(coll, oid, upd) ==
  [i \in 1..Len(coll) |-> SetFields(coll[i], upd)]

\* update_one({"_id": oid}, {"$set": upd})
UpdateOne(coll, oid, upd) ==
  LET hits == {i \in 1..Len(coll) : coll[i]._id = oid}
  IN IF hits = {} THEN coll
     ELSE LET h == CHOOSE i \in hits : \A j \in hits : i <= j
          IN [coll EXCEPT ![h] = SetFields(coll[h], upd)]

\* a listing whose query drops the due_at condition
FindDueNoFilter(coll, uid, due, now) == Limit(FindAll(coll, uid, FALSE, now), ListLimit)

\* find(query).limit(100) of list_flashcards
FindDue(coll, uid, due, now) == Limit(FindAll(coll, uid, due, now), ListLimit)

\* ------------------------------------------------------------ scheduling
\* the interval without its upper limit
ReviewDaysNoCap(grade) == Max(MinDays, grade)
\* the interval without its lower limit
ReviewDaysNoFloor(grade) == Min(MaxDays, grade)
\* the interval that ignores the grade
ReviewDaysFixed(grade) == MinDays
\* days = max(1, min(7, payload.grade))
ReviewDays(grade) == Max(MinDays, Min(MaxDays, grade))
\* the batch size without its lower limit
BatchSizeNoFloor(count) == Max(0, Min(count, MaxBatch))
\* range(max(1, min(payload.count, 20)))
BatchSize(count) == Max(MinBatch, Min(count, MaxBatch))
\* a stagger that never wraps around
StaggerDaysNoWrap(i) == i + 1
\* i % 3 + 1 for the 0-based index i
StaggerDays(i) == (i % StaggerPeriod) + 1

\* the document built by one iteration of the loop, after insert_many gave it its _id
NewCard(oid, uid, stem, i, now) ==
  [_id |-> oid,
   user_id |-> uid,
   front |-> <<"What is ", stem, " concept ", i + 1, "?">>,
   back |-> <<"Explanation for ", stem, " concept ", i + 1, ".">>,
   blooms_level |-> "remember",
   due_at |-> now + timedelta(StaggerDays(i)),
   created_at |-> now]

\* ------------------------------------------------------------------ state
VARIABLES clock, flashcard, resp, rev, created, hist, nGen, nRev
vars == <<clock, flashcard, resp, rev, created, hist, nGen, nRev>>

NoResp == [op |-> "none", status |-> 0]
IdleRev == [pc |-> "idle", fid |-> Malformed, user |-> "u1", grade |-> 0,
            now |-> 0, next_due |-> 0]

Init ==
  /\ clock = 0
  /\ flashcard = <<>>
  /\ resp = NoResp
  /\ rev = [p \in Procs |-> IdleRev]
  /\ created = <<>>
  /\ hist = <<>>
  /\ nGen = 0
  /\ nRev = 0

\* the clock advances between any two steps
Tick ==
  /\ clock < MaxClock
  /\ clock' = clock + 1
  /\ resp' = NoResp
  /\ UNCHANGED <<flashcard, rev, created, hist, nGen, nRev>>

\* POST /api/flashcards/generate
Generate(chapterIds, counts) ==
  /\ \E uid \in Users, chapter_id \in chapterIds, count \in counts :
       LET chap == GetChapter(chapter_id)
           now == clock
           n == BatchSize(count)
           base == Len(flashcard)
       IN /\ nGen' = nGen + 1
          /\ IF chap.status # 200
               THEN /\ resp' = [op |-> "generate", status |-> 404, detail |-> chap.detail,
                                   user |-> uid, chapter_id |-> chapter_id, count |-> count, now |-> now]
                    /\ UNCHANGED <<flashcard, created, hist>>
               ELSE LET docs == [i \in 1..n |->
                                   NewCard(base + i, uid, Stem(chap.doc), i - 1, now)]
                    IN /\ flashcard' = flashcard \o docs
                       /\ created' = created \o docs
                       /\ hist' = hist \o [i \in 1..n |->
                                    [at |-> now, due_at |-> docs[i].due_at,
                                     seq |-> 0]]
                       /\ resp' = [op |-> "generate", status |-> 200,
                                      items |-> [i \in 1..n |->
                                                   SetFields(docs[i], [id |-> StrId(docs[i]._id)])],
                                      user |-> uid, chapter_id |-> chapter_id, count |-> count, now |-> now]
  /\ UNCHANGED <<clock, rev, nRev>>

\* GET /api/flashcards
List ==
  /\ \E uid \in Users, due \in BOOLEAN :
       LET now == clock
           items == FindDue(flashcard, uid, due, now)
       IN resp' = [op |-> "list", status |-> 200,
                       items |-> [i \in 1..Len(items) |->
                                    SetFields(items[i], [id |-> StrId(items[i]._id)])],
                       user |-> uid, due |-> due, now |-> now]
  /\ UNCHANGED <<clock, flashcard, rev, created, hist, nGen, nRev>>

\* what the caller asked for, seen from outside the handler
CaseOf(fid, uid) ==
  IF ~fid.valid THEN "malformed"
  ELSE IF \A i \in 1..Len(flashcard) : flashcard[i]._id # fid.n THEN "absent"
  ELSE IF \E i \in 1..Len(flashcard) : flashcard[i]._id = fid.n /\ flashcard[i].user_id = uid
         THEN "own"
  ELSE "foreign"

FidInputs == {Malformed, StrId(1), StrId(3)}
Grades == {-3, 3, 10}

\* HTTPException(404, detail) as the caller sees it
NotFound(detail, fid, uid) ==
  [op |-> "review", status |-> 404, detail |-> detail, fid |-> fid, user |-> uid,
   case |-> CaseOf(fid, uid)]

\* PUT /api/flashcards/{fid}/review, lines 354-360: parse the id and find the card;
\* the request is taken by the lowest idle worker
ReviewFind(p) ==
  /\ rev[p].pc = "idle"
  /\ \A q \in Procs : q < p => rev[q].pc # "idle"
  /\ nGen + nRev < MaxOps
  /\ nRev' = nRev + 1
  /\ \E fid \in FidInputs, uid \in Users, grade \in Grades :
       IF ObjectIdRaises(fid)
         THEN /\ resp' = NotFound("Invalid flashcard id", fid, uid)
              /\ UNCHANGED rev
       ELSE IF FindOne(flashcard, ObjectId(fid), uid) = 0
         THEN /\ resp' = NotFound("Flashcard not found", fid, uid)
              /\ UNCHANGED rev
       ELSE /\ resp' = NoResp
            /\ rev' = [rev EXCEPT ![p] = [IdleRev EXCEPT !.pc = "found", !.fid = fid,
                                            !.user = uid, !.grade = grade]]
  /\ UNCHANGED <<clock, flashcard, created, hist, nGen>>

\* lines 362-363: days and next_due from the first clock reading
ReviewCompute(p) ==
  /\ rev[p].pc = "found"
  /\ rev' = [rev EXCEPT ![p].pc = "computed",
                        ![p].now = clock,
                        ![p].next_due = clock + timedelta(ReviewDays(rev[p].grade))]
  /\ resp' = NoResp
  /\ UNCHANGED <<clock, flashcard, created, hist, nGen, nRev>>

\* lines 364-365: update_one with the second clock reading, then the response
ReviewUpdate(p) ==
  /\ rev[p].pc = "computed"
  /\ LET oid == ObjectId(rev[p].fid)
         upd == [due_at |-> rev[p].next_due, updated_at |-> clock]
     IN /\ flashcard' = UpdateOne(flashcard, oid, upd)
        /\ hist' = [hist EXCEPT ![oid] =
                      [at |-> rev[p].now, grade |-> rev[p].grade,
                       due_at |-> rev[p].next_due, updated_at |-> clock,
                       seq |-> hist[oid].seq + 1,
                       prev |-> [seq |-> hist[oid].seq, at |-> hist[oid].at,
                                 due_at |-> hist[oid].due_at,
                                 grade |-> IF hist[oid].seq > 0 THEN hist[oid].grade ELSE 0]]]
        /\ resp' = [op |-> "review", status |-> 200, next_due_at |-> rev[p].next_due,
                    fid |-> rev[p].fid, user |-> rev[p].user, grade |-> rev[p].grade,
                    now |-> rev[p].now]
        /\ rev' = [rev EXCEPT ![p] = IdleRev]
  /\ UNCHANGED <<clock, created, nGen, nRev>>

SmallChapterIds == {StrId(1)}
SmallCounts == {2}
GenerateSmall == nGen + nRev < MaxOps /\ Generate(SmallChapterIds, SmallCounts)

Next ==
  \/ Tick
  \/ GenerateSmall
  \/ List
  \/ \E p \in Procs : ReviewFind(p)
  \/ \E p \in Procs : ReviewCompute(p)
  \/ \E p \in Procs : ReviewUpdate(p)

Spec == Init /\ [][Next]_vars

\* generation and listing alone, over the whole range of requested counts
AllChapterIds == {StrId(1), StrId(2), StrId(7), Malformed}
AllCounts == {-5, 0, 1, 5, 20, 21, 1000}
GenerateAny == nGen < MaxBatches /\ Generate(AllChapterIds, AllCounts)

NextGen ==
  \/ Tick
  \/ GenerateAny
  \/ List

SpecGen == Init /\ [][NextGen]_vars

\* ------------------------------------------------------------- properties
Clamp(x, lo, hi) == IF x < lo THEN lo ELSE IF x > hi THEN hi ELSE x
Cards == 1..Len(flashcard)
ReviewOk == resp.op = "review" /\ resp.status = 200
ReviewFailed == resp.op = "review" /\ resp.status = 404
GenerateOk == resp.op = "generate" /\ resp.status = 200
Reviewed(i) == hist[i].seq > 0

\* C1: a successful review with grade g whose clock reading is now stores and
\* returns due_at = now + clamp(g, 1, 7) days, and a review of the caller's own
\* card never fails, whatever the grade.
C1_ReviewDueAt ==
  /\ ReviewOk =>
       /\ resp.next_due_at = resp.now + Clamp(resp.grade, 1, 7) * Day
       /\ flashcard[ObjectId(resp.fid)].due_at = resp.next_due_at
  /\ ReviewFailed => resp.case # "own"
C1_Witness ==
  /\ ReviewOk
  /\ resp.grade > 7
  /\ \E i \in Cards : Reviewed(i) /\ hist[i].prev.seq > 0 /\ hist[i].prev.grade < 1

\* C2: a review of a card owned by another user is never carried out and fails
\* with the same status and message as a review of an id no card has.
C2_ForeignLooksAbsent ==
  /\ (ReviewFailed /\ resp.case \in {"foreign", "absent"}) =>
       (resp.status = 404 /\ resp.detail = "Flashcard not found")
  /\ ReviewOk => CaseOf(resp.fid, resp.user) = "own"
  /\ \A p \in Procs : rev[p].pc # "idle" => CaseOf(rev[p].fid, rev[p].user) = "own"
C2_Witness == ReviewFailed /\ resp.case = "foreign"

\* C3: a listing returns only cards of the caller, and with due set no card
\* whose stored due_at is after the listing's clock reading.
C3_ListDue ==
  resp.op = "list" =>
    \A k \in 1..Len(resp.items) :
      LET it == resp.items[k]
      IN /\ it.user_id = resp.user
         /\ resp.due => it.due_at <= resp.now
         /\ it._id \in Cards
         /\ flashcard[it._id].user_id = resp.user
         /\ resp.due => flashcard[it._id].due_at <= resp.now
C3_Witness ==
  /\ resp.op = "list"
  /\ resp.due
  /\ Len(resp.items) > 0
  /\ \E k \in 1..Len(resp.items) : Reviewed(resp.items[k]._id)
  /\ \E i \in Cards : flashcard[i].user_id = resp.user /\ flashcard[i].due_at > resp.now

\* C4: for an existing chapter, generate succeeds and creates and returns
\* exactly clamp(count, 1, 20) cards, all owned by the caller.
C4_BatchSize ==
  /\ (resp.op = "generate" /\ GetChapter(resp.chapter_id).status = 200) => resp.status = 200
  /\ GenerateOk =>
       /\ Len(resp.items) = Clamp(resp.count, 1, 20)
       /\ Len(resp.items) \in 1..20
       /\ \A k \in 1..Len(resp.items) :
            /\ resp.items[k].user_id = resp.user
            /\ resp.items[k]._id = Len(flashcard) - Len(resp.items) + k
            /\ flashcard[resp.items[k]._id].user_id = resp.user
            /\ resp.items[k].id = StrId(resp.items[k]._id)
C4_Witness ==
  /\ GenerateOk
  /\ resp.count > 20
  /\ Len(resp.items) = 20

\* C5: the card at 0-based index i of a batch generated at now has
\* due_at = now + ((i mod 3) + 1) days.
C5_Stagger ==
  GenerateOk =>
    \A k \in 1..Len(resp.items) :
      /\ resp.items[k].due_at = resp.now + (((k - 1) % 3) + 1) * Day
      /\ flashcard[resp.items[k]._id].due_at = resp.items[k].due_at
C5_Witness ==
  /\ GenerateOk
  /\ Len(resp.items) = 5
  /\ resp.items[1].due_at = resp.items[4].due_at
  /\ resp.items[2].due_at = resp.items[5].due_at
  /\ resp.items[1].due_at # resp.items[2].due_at

\* C6: every stored card has a due_at, and it is not before the clock reading
\* of the review that last set it, or of its creation if it was never reviewed.
C6_DueAtPresent ==
  \A i \in Cards :
    /\ "due_at" \in DOMAIN flashcard[i]
    /\ flashcard[i].due_at >= hist[i].at
    /\ ~Reviewed(i) => flashcard[i].due_at >= flashcard[i].created_at
C6_Witness ==
  \E i \in Cards : Reviewed(i) /\ hist[i].grade < 1 /\ hist[i].prev.seq > 0

\* C7: right after a successful review the stored updated_at is the clock
\* reading that computed due_at, so due_at = updated_at + clamp(grade, 1, 7) days.
C7_SameNow ==
  ReviewOk =>
    LET card == flashcard[ObjectId(resp.fid)]
    IN /\ card.updated_at = resp.now
       /\ card.due_at = card.updated_at + Clamp(resp.grade, 1, 7) * Day

\* C8: the stored due_at and updated_at of a reviewed card are the pair written
\* by the update applied last, and a review returns the due_at it computed.
C8_LastWriteWins ==
  /\ \A i \in Cards :
       Reviewed(i) => /\ flashcard[i].due_at = hist[i].due_at
                      /\ flashcard[i].updated_at = hist[i].updated_at
  /\ ReviewOk => resp.next_due_at = hist[ObjectId(resp.fid)].due_at
C8_Witness ==
  \E i \in Cards :
    /\ hist[i].seq = 2
    /\ hist[i].at < hist[i].prev.at
    /\ hist[i].due_at < hist[i].prev.due_at
    /\ \A p \in Procs : rev[p].pc = "idle"

\* C9 as stated: of two successive reviews of a card at non-decreasing clock
\* readings, the later stores a due_at that is not before the earlier's.
C9_Monotonic ==
  \A i \in Cards :
    (Reviewed(i) /\ hist[i].prev.seq > 0 /\ hist[i].at >= hist[i].prev.at) =>
      hist[i].due_at >= hist[i].prev.due_at

\* C9 amended: the two due_at differ by the time between the clock readings plus
\* the difference of the clamped grades in days, so the later due_at is not
\* before the earlier's when the later clamped grade is not lower.
C9_MonotonicByGrade ==
  \A i \in Cards :
    (Reviewed(i) /\ hist[i].prev.seq > 0 /\ hist[i].at >= hist[i].prev.at) =>
      /\ flashcard[i].due_at - hist[i].prev.due_at =
           (hist[i].at - hist[i].prev.at)
             + (Clamp(hist[i].grade, 1, 7) - Clamp(hist[i].prev.grade, 1, 7)) * Day
      /\ Clamp(hist[i].grade, 1, 7) >= Clamp(hist[i].prev.grade, 1, 7) =>
           flashcard[i].due_at >= hist[i].prev.due_at
      /\ flashcard[i].due_at >= hist[i].prev.due_at - 6 * Day
C9_Witness ==
  \E i \in Cards :
    /\ Reviewed(i)
    /\ hist[i].prev.seq > 0
    /\ hist[i].at > hist[i].prev.at
    /\ hist[i].grade > hist[i].prev.grade
    /\ flashcard[i].due_at > hist[i].prev.due_at

\* C10: no card is removed, a card no successful review has targeted is as it
\* was created, and a reviewed card differs from its creation in due_at and
\* updated_at only.
C10_Frame ==
  /\ Len(flashcard) = Len(created)
  /\ \A i \in Cards :
       /\ ~Reviewed(i) => flashcard[i] = created[i]
       /\ DOMAIN flashcard[i] \subseteq (DOMAIN created[i]) \cup {"updated_at"}
       /\ \A k \in (DOMAIN created[i]) \ {"due_at"} : flashcard[i][k] = created[i][k]
       /\ flashcard[i]._id = i
C10_Witness ==
  /\ ReviewFailed
  /\ resp.case = "foreign"
  /\ \E i, j \in Cards : Reviewed(i) /\ ~Reviewed(j)

====
